---- MODULE Spec2Model ----
(***************************************************************************)
(* Model of sesg/topic_extraction.py: the enum TopicExtractionStrategy and *)
(* the two functions extract_topics_with_lda / extract_topics_with_bertopic*)
(* as straight-line programs, one action per statement.  The third-party   *)
(* libraries (CountVectorizer, LatentDirichletAllocation, UMAP, BERTopic,  *)
(* numpy) are modelled at their call sites by what the call returns or     *)
(* raises.  Sequences are 1-based here where Python is 0-based.            *)
(***************************************************************************)
EXTENDS Integers, Sequences, FiniteSets, TLC

VARIABLES
    pc,             \* position of the caller / of the running function
    strategy,       \* strategy of the current call: "none" or a member's value
    args,           \* keyword arguments of the current call (name -> value)
    vectorizer,     \* CountVectorizer parameters, <<>> until built
    vocabulary_,    \* the fitted vectorizer's terms, <<>> until fitted
    tf,             \* document-term matrix of fit_transform, <<>> until fitted
    feature_names,  \* vectorizer.get_feature_names_out()
    lda,            \* LatentDirichletAllocation parameters, <<>> until built
    components_,    \* lda.components_ after fit
    umap_model,     \* UMAP parameters, <<>> until built
    topic_model,    \* BERTopic parameters, <<>> until built
    bert_topics,    \* topic_model.get_topics() after fit_transform
    result,         \* <<>> or <<topics>>: the value handed to the caller
    error,          \* "" or the exception that reached the caller
    trace,          \* library steps of the current call, in execution order
    raised,         \* <<>> or <<[step, error]>>: what a library step raised
    np_random,      \* numpy's process-wide RandomState
    lib,            \* the installed libraries' (fixed) numeric behaviour
    remembered      \* an earlier returned LDA call: {} or {[args, result]}

vars == <<pc, strategy, args, vectorizer, vocabulary_, tf, feature_names, lda,
          components_, umap_model, topic_model, bert_topics, result, error,
          trace, raised, np_random, lib, remembered>>

-----------------------------------------------------------------------------
(* Bounds of the model *)

\* lda.components_ weights range over 1..NumWeights
NumWeights == 3
\* number_of_topics is drawn from 0..MaxTopics
MaxTopics == 2
\* top_n_words is drawn from 1..MaxTopN
MaxTopN == 2
\* BERTopic finds at most MaxBertTopics non-outlier topics
MaxBertTopics == 1
\* the process-wide RandomState has RngPeriod states
RngPeriod == 2

-----------------------------------------------------------------------------
(* Values *)

None == << >>
Some(x) == <<x>>

\* min_df / max_df: a float is a proportion (kept in percent), an int a count
FloatDf(pct) == <<"float", pct>>
IntDf(n) == <<"int", n>>

\* english stop words that occur in the corpora below
StopWords == {"with", "in"}

WordRank == [code |-> 1, detection |-> 2, in |-> 3, smells |-> 4,
             tools |-> 5, with |-> 6]

\* the document collections a caller passes as docs (token sequences)
Corpora ==
    { << >>,
      << <<"with">>, <<"in">> >>,
      << <<"code", "smells">>, <<"code", "with", "tools">> >>,
      << <<"smells", "detection", "in", "code">> >> }

MinDfChoices == {FloatDf(50), FloatDf(100)}
MinTopicSizeChoices == {2, 10}
NeighborChoices == {2, 15}

-----------------------------------------------------------------------------
(* class TopicExtractionStrategy(str, Enum) *)

\* bertopic = "lda": the second name becomes an alias of the first member
TopicExtractionStrategy_Alias ==
    << <<"lda", "lda">>, <<"bertopic", "lda">> >>

\* the class body: name = value assignments in source order
TopicExtractionStrategy == << <<"lda", "lda">>, <<"bertopic", "bertopic">> >>

\* Enum semantics: a later name bound to an already used value is an alias,
\* not a member
EnumMembers(body) ==
    { body[i][1] : i \in { k \in 1..Len(body) :
                           \A h \in 1..(k-1) : body[h][2] # body[k][2] } }

EnumValue(body, name) ==
    LET i == CHOOSE k \in 1..Len(body) : body[k][1] = name IN body[i][2]

-----------------------------------------------------------------------------
(* CountVectorizer *)

\* stop word removal
Analyze(doc, stop_words) ==
    SelectSeq(doc, LAMBDA w : ~(stop_words = "english" /\ w \in StopWords))

\* word n-grams of sizes ngram_range[1]..ngram_range[2]
NGrams(tokens, ngram_range) ==
    { SubSeq(tokens, i, i + n - 1) :
        <<n, i>> \in
            { p \in (ngram_range[1]..ngram_range[2]) \X (1..Len(tokens)) :
                p[2] + p[1] - 1 <= Len(tokens) } }

TermCount(g, tokens) ==
    Cardinality({ i \in 1..Len(tokens) :
                  /\ i + Len(g) - 1 <= Len(tokens)
                  /\ SubSeq(tokens, i, i + Len(g) - 1) = g })

\* string order of two n-grams (words joined by a space)
RECURSIVE NGramLess(_, _)
NGramLess(g, h) ==
    IF g = << >> THEN h # << >>
    ELSE IF h = << >> THEN FALSE
    ELSE IF Head(g) = Head(h) THEN NGramLess(Tail(g), Tail(h))
    ELSE WordRank[Head(g)] < WordRank[Head(h)]

RECURSIVE SortedTerms(_)
SortedTerms(S) ==
    IF S = {} THEN << >>
    ELSE LET m == CHOOSE g \in S : \A h \in S \ {g} : NGramLess(g, h)
         IN <<m>> \o SortedTerms(S \ {m})

\* documents a term must / may occur in, as a count scaled by 100
DocCount(df, n_docs) == IF df[1] = "float" THEN df[2] * n_docs ELSE 100 * df[2]

\* fit_transform(docs): the vocabulary (sorted) and the count matrix, or the
\* ValueError of an empty vocabulary
FitTransform(v, docs) ==
    LET toks == [d \in 1..Len(docs) |-> Analyze(docs[d], v.stop_words)]
        all == UNION { NGrams(toks[d], v.ngram_range) : d \in 1..Len(docs) }
        DF(g) == Cardinality({ d \in 1..Len(docs) : TermCount(g, toks[d]) > 0 })
        kept == { g \in all :
                    /\ 100 * DF(g) >= DocCount(v.min_df, Len(docs))
                    /\ 100 * DF(g) <= DocCount(v.max_df, Len(docs)) }
        names == SortedTerms(kept)
    IN IF kept = {}
       THEN [ok |-> FALSE, error |-> "ValueError"]
       ELSE [ok |-> TRUE,
             vocabulary |-> names,
             tf |-> [d \in 1..Len(docs) |->
                       [j \in 1..Len(names) |-> TermCount(names[j], toks[d])]]]

-----------------------------------------------------------------------------
(* numpy *)

\* the libraries' numeric behaviour is fixed for a run but not known: how much
\* a fitted weight depends on the feature's position, and how argsort
\* (kind="quicksort", not stable) orders equal weights
LibChoices == [b : 0..(NumWeights - 1), stable : BOOLEAN]

\* indices that sort row ascending; equal weights by index, up or down
RECURSIVE ArgSortOf(_, _, _)
ArgSortOf(row, S, stable) ==
    IF S = {} THEN << >>
    ELSE LET m == CHOOSE i \in S : \A k \in S \ {i} :
                      \/ row[i] < row[k]
                      \/ row[i] = row[k] /\ (IF stable THEN i < k ELSE i > k)
         IN <<m>> \o ArgSortOf(row, S \ {m}, stable)

ArgSort(row, stable) == ArgSortOf(row, DOMAIN row, stable)

\* s[::-1]
Reversed(s) == [k \in 1..Len(s) |-> s[Len(s) + 1 - k]]

\* check_random_state(seed): None is the process-wide RandomState, an int
\* seeds a RandomState of its own
UsesGlobalRng(random_state) == random_state = None
SeedOf(random_state, global) ==
    IF random_state = None THEN global ELSE random_state[1]
Advance(rng) == (rng + 1) % RngPeriod

-----------------------------------------------------------------------------
(* LatentDirichletAllocation *)

RECURSIVE SumTo(_, _)
SumTo(f, n) == IF n = 0 THEN 0 ELSE f[n] + SumTo(f, n - 1)

ColSum(X, j) == SumTo([d \in 1..Len(X) |-> X[d][j]], Len(X))

\* lda.fit(X): n_components rows of one weight per feature, a function of X,
\* the parameters and the seed; n_components < 1 is rejected
LdaFitOutcome(params, X, seed, l) ==
    IF params.n_components < 1
    THEN [ok |-> FALSE, error |-> "InvalidParameterError"]
    ELSE [ok |-> TRUE,
          components_ |->
            [t \in 1..params.n_components |->
              [j \in 1..Len(X[1]) |->
                1 + ((t * ColSum(X, j) + l.b * j + seed) % NumWeights)]]]

-----------------------------------------------------------------------------
(* what both functions share *)

Terminal == {"idle", "returned", "raised"}

\* binding of a keyword-only signature without defaults
Bound(required, kwargs) == required \subseteq DOMAIN kwargs

\* a new call starts from a clean frame
EnterCall(f, kwargs, required, first) ==
    /\ strategy' = f
    /\ args' = kwargs
    /\ vectorizer' = None /\ vocabulary_' = None /\ tf' = None
    /\ feature_names' = None
    /\ lda' = None /\ components_' = None
    /\ umap_model' = None /\ topic_model' = None /\ bert_topics' = None
    /\ result' = None
    /\ trace' = << >>
    /\ raised' = None
    /\ IF Bound(required, kwargs)
       THEN pc' = first /\ error' = ""
       ELSE pc' = "raised" /\ error' = "TypeError"
    /\ UNCHANGED <<np_random, lib, remembered>>

\* except: return []
OnLibraryError_EmptyList(e) ==
    /\ pc' = "returned"
    /\ error' = ""
    /\ result' = Some(<< >>)

\* neither function has a try/except: what a library step raises leaves the
\* function as it is, and nothing is returned
OnLibraryError(e) ==
    /\ pc' = "raised"
    /\ error' = e
    /\ result' = None

Fails(step, e) ==
    /\ trace' = Append(trace, step)
    /\ raised' = Some([step |-> step, error |-> e])
    /\ OnLibraryError(e)

Does(step, next) ==
    /\ trace' = Append(trace, step)
    /\ pc' = next
    /\ UNCHANGED <<raised, error>>

-----------------------------------------------------------------------------
(* extract_topics_with_lda *)

\* TopicExtractionStrategy.lda.value
LdaStrategy == EnumValue(TopicExtractionStrategy, "lda")

LdaRequired == {"docs", "min_document_frequency", "number_of_topics"}

LdaVectorizer(min_document_frequency) ==
    [min_df |-> min_document_frequency,
     max_df |-> FloatDf(100),
     ngram_range |-> <<1, 3>>,
     max_features |-> None,
     stop_words |-> "english"]

\* random_state left out: the estimator draws from the process-wide state
LdaModel_NoSeed(number_of_topics) ==
    [n_components |-> number_of_topics,
     doc_topic_prior |-> None,
     topic_word_prior |-> None,
     learning_method |-> "batch",
     learning_decay |-> "0.7",
     learning_offset |-> "10.0",
     max_iter |-> 5000,
     batch_size |-> 128,
     evaluate_every |-> -1,
     total_samples |-> "1000000.0",
     perp_tol |-> "0.1",
     mean_change_tol |-> "0.001",
     max_doc_update_iter |-> 100,
     random_state |-> None]

\* n_components left out: the estimator's default of 10 topics
LdaModel_DefaultComponents(number_of_topics) ==
    [n_components |-> 10,
     doc_topic_prior |-> None,
     topic_word_prior |-> None,
     learning_method |-> "batch",
     learning_decay |-> "0.7",
     learning_offset |-> "10.0",
     max_iter |-> 5000,
     batch_size |-> 128,
     evaluate_every |-> -1,
     total_samples |-> "1000000.0",
     perp_tol |-> "0.1",
     mean_change_tol |-> "0.001",
     max_doc_update_iter |-> 100,
     random_state |-> Some(0)]

LdaModel(number_of_topics) ==
    [n_components |-> number_of_topics,
     doc_topic_prior |-> None,
     topic_word_prior |-> None,
     learning_method |-> "batch",
     learning_decay |-> "0.7",
     learning_offset |-> "10.0",
     max_iter |-> 5000,
     batch_size |-> 128,
     evaluate_every |-> -1,
     total_samples |-> "1000000.0",
     perp_tol |-> "0.1",
     mean_change_tol |-> "0.001",
     max_doc_update_iter |-> 100,
     random_state |-> Some(0)]

\* topic.argsort() without the [::-1]
TopicOrder_Ascending(topic, stable) == ArgSort(topic, stable)

\* topic.argsort()[::-1]
TopicOrder(topic, stable) == Reversed(ArgSort(topic, stable))

\* topic.argsort()[::-1][:2]: only the two heaviest words of a topic
LdaTopicsOf_TopTwo(names, components, stable) ==
    [t \in 1..Len(components) |->
        LET order == TopicOrder(components[t], stable)
        IN [k \in 1..(IF Len(order) < 2 THEN Len(order) ELSE 2) |->
              names[order[k]]]]

\* [[feature_names[i] for i in topic.argsort()[::-1]] for topic in components_]
LdaTopicsOf(names, components, stable) ==
    [t \in 1..Len(components) |->
        LET order == TopicOrder(components[t], stable)
        IN [k \in 1..Len(order) |-> names[order[k]]]]

\* extract_topics_with_lda(docs=, min_document_frequency=, number_of_topics=)
\* or, as in the docstring of the other function, with docs alone
LdaCall ==
    /\ pc \in Terminal
    /\ \/ \E docs \in Corpora, mdf \in MinDfChoices, n \in 0..MaxTopics :
            EnterCall(LdaStrategy,
                      [docs |-> docs, min_document_frequency |-> mdf,
                       number_of_topics |-> n],
                      LdaRequired, "L57")
       \/ \E docs \in Corpora :
            EnterCall(LdaStrategy, [docs |-> docs], LdaRequired, "L57")

\* from sklearn.decomposition import LatentDirichletAllocation
LdaImport ==
    /\ pc = "L57"
    /\ \/ Does("import", "L63") /\ UNCHANGED result
       \/ Fails("import", "ImportError")
    /\ UNCHANGED <<strategy, args, vectorizer, vocabulary_, tf, feature_names,
                   lda, components_, umap_model, topic_model, bert_topics,
                   np_random, lib, remembered>>

\* vectorizer = CountVectorizer(...)
LdaBuildVectorizer ==
    /\ pc = "L63"
    /\ vectorizer' = Some(LdaVectorizer(args.min_document_frequency))
    /\ Does("CountVectorizer", "L71")
    /\ UNCHANGED <<strategy, args, vocabulary_, tf, feature_names, lda,
                   components_, umap_model, topic_model, bert_topics, result,
                   np_random, lib, remembered>>

\* tf = vectorizer.fit_transform(docs)
LdaFitTransform ==
    /\ pc = "L71"
    /\ LET out == FitTransform(vectorizer[1], args.docs)
       IN \/ /\ out.ok
             /\ tf' = Some(out.tf)
             /\ vocabulary_' = Some(out.vocabulary)
             /\ Does("fit_transform", "L75")
             /\ UNCHANGED result
          \/ /\ ~out.ok
             /\ Fails("fit_transform", out.error)
             /\ UNCHANGED <<tf, vocabulary_>>
          \/ /\ Fails("fit_transform", "MemoryError")
             /\ UNCHANGED <<tf, vocabulary_>>
    /\ UNCHANGED <<strategy, args, vectorizer, feature_names, lda,
                   components_, umap_model, topic_model, bert_topics,
                   np_random, lib, remembered>>

\* feature_names = vectorizer.get_feature_names_out()
LdaFeatureNames ==
    /\ pc = "L75"
    /\ feature_names' = vocabulary_
    /\ Does("get_feature_names_out", "L82")
    /\ UNCHANGED <<strategy, args, vectorizer, vocabulary_, tf, lda,
                   components_, umap_model, topic_model, bert_topics, result,
                   np_random, lib, remembered>>

\* lda = LatentDirichletAllocation(...) with the lda.fit(tf) line lost
LdaConstruct_SkipFit ==
    /\ pc = "L82"
    /\ lda' = Some(LdaModel(args.number_of_topics))
    /\ Does("LatentDirichletAllocation", "L113")
    /\ UNCHANGED <<strategy, args, vectorizer, vocabulary_, tf, feature_names,
                   components_, umap_model, topic_model, bert_topics, result,
                   np_random, lib, remembered>>

\* lda = LatentDirichletAllocation(...)
LdaConstruct ==
    /\ pc = "L82"
    /\ lda' = Some(LdaModel(args.number_of_topics))
    /\ Does("LatentDirichletAllocation", "L99")
    /\ UNCHANGED <<strategy, args, vectorizer, vocabulary_, tf, feature_names,
                   components_, umap_model, topic_model, bert_topics, result,
                   np_random, lib, remembered>>

\* lda.fit(tf)
LdaFit ==
    /\ pc = "L99"
    /\ LET rs == lda[1].random_state
           out == LdaFitOutcome(lda[1], tf[1], SeedOf(rs, np_random), lib)
       IN \/ /\ out.ok
             /\ components_' = Some(out.components_)
             /\ np_random' = IF UsesGlobalRng(rs) THEN Advance(np_random)
                             ELSE np_random
             /\ Does("fit", "L113")
             /\ UNCHANGED result
          \/ /\ ~out.ok
             /\ Fails("fit", out.error)
             /\ UNCHANGED <<components_, np_random>>
          \/ /\ Fails("fit", "MemoryError")
             /\ UNCHANGED <<components_, np_random>>
    /\ UNCHANGED <<strategy, args, vectorizer, vocabulary_, tf, feature_names,
                   lda, umap_model, topic_model, bert_topics, lib,
                   remembered>>

\* topics = [...]; return topics
LdaTopics ==
    /\ pc = "L113"
    /\ LET topics == LdaTopicsOf(feature_names[1], components_[1], lib.stable)
       IN /\ result' = Some(topics)
          /\ \/ UNCHANGED remembered
             \/ /\ remembered = {}
                /\ remembered' = {[args |-> args, result |-> topics,
                                   np |-> np_random]}
    /\ Does("components_", "returned")
    /\ UNCHANGED <<strategy, args, vectorizer, vocabulary_, tf, feature_names,
                   lda, components_, umap_model, topic_model, bert_topics,
                   np_random, lib>>

-----------------------------------------------------------------------------
(* extract_topics_with_bertopic *)

\* TopicExtractionStrategy.bertopic.value
BertStrategy == EnumValue(TopicExtractionStrategy, "bertopic")

BertRequired == {"docs", "top_n_words", "min_topic_size", "umap_n_neighbors"}

\* CountVectorizer(stop_words=, ngram_range=): the rest are its defaults
BertVectorizer ==
    [min_df |-> IntDf(1),
     max_df |-> FloatDf(100),
     ngram_range |-> <<1, 3>>,
     max_features |-> None,
     stop_words |-> "english"]

\* n_neighbors left out: UMAP's default of 15
UmapModel_DefaultNeighbors(umap_n_neighbors) ==
    [n_neighbors |-> 15,
     n_components |-> 5,
     min_dist |-> "0.0",
     metric |-> "cosine",
     low_memory |-> FALSE,
     random_state |-> None]

UmapModel(umap_n_neighbors) ==
    [n_neighbors |-> umap_n_neighbors,
     n_components |-> 5,
     min_dist |-> "0.0",
     metric |-> "cosine",
     low_memory |-> FALSE,
     random_state |-> None]

BertModel(top_n_words, min_topic_size, vectorizer_model, umap) ==
    [language |-> "english",
     verbose |-> TRUE,
     top_n_words |-> top_n_words,
     min_topic_size |-> min_topic_size,
     vectorizer_model |-> vectorizer_model,
     umap_model |-> umap]

\* one entry of get_topics(): top_n_words (word, score) tuples, best first,
\* padded with the empty word when the vocabulary is short
BertEntry(vocab, id, top_n) ==
    [key |-> id,
     words |-> [k \in 1..top_n |->
                  IF k <= Len(vocab)
                  THEN <<vocab[((id + 1 + k) % Len(vocab)) + 1],
                         top_n + 1 - k>>
                  ELSE << << >>, 0 >>]]

\* the mappings fit_transform may leave behind: any number of topics, with or
\* without the outlier topic -1, which the dict may hold first or last
GetTopicsChoices(vocab, top_n) ==
    { (IF outlier = "first" THEN <<BertEntry(vocab, -1, top_n)>> ELSE << >>)
      \o [i \in 1..k |-> BertEntry(vocab, i - 1, top_n)]
      \o (IF outlier = "last" THEN <<BertEntry(vocab, -1, top_n)>> ELSE << >>) :
        <<outlier, k>> \in {"none", "first", "last"} \X (0..MaxBertTopics) }

\* the same, with the outlier topic -1 filtered out
BertTopicsOf_NoOutlier(mapping) ==
    LET kept == SelectSeq(mapping, LAMBDA e : e.key # -1)
    IN [e \in 1..Len(kept) |->
          [k \in 1..Len(kept[e].words) |-> kept[e].words[k][1]]]

\* [[word for word, _ in topic_group] for topic_group in get_topics().values()]
BertTopicsOf(mapping) ==
    [e \in 1..Len(mapping) |->
        [k \in 1..Len(mapping[e].words) |-> mapping[e].words[k][1]]]

\* extract_topics_with_bertopic(docs=, top_n_words=, min_topic_size=,
\* umap_n_neighbors=) or, as in its docstring, with docs alone
BertCall ==
    /\ pc \in Terminal
    /\ \/ \E docs \in Corpora, top \in 1..MaxTopN,
             mts \in MinTopicSizeChoices, nn \in NeighborChoices :
            EnterCall(BertStrategy,
                      [docs |-> docs, top_n_words |-> top,
                       min_topic_size |-> mts, umap_n_neighbors |-> nn],
                      BertRequired, "L145")
       \/ \E docs \in Corpora :
            EnterCall(BertStrategy, [docs |-> docs], BertRequired, "L145")

\* from bertopic import BERTopic; from umap.umap_ import UMAP
BertImport ==
    /\ pc = "L145"
    /\ \/ Does("import", "L148") /\ UNCHANGED result
       \/ Fails("import", "ImportError")
    /\ UNCHANGED <<strategy, args, vectorizer, vocabulary_, tf, feature_names,
                   lda, components_, umap_model, topic_model, bert_topics,
                   np_random, lib, remembered>>

\* vectorizer_model = CountVectorizer(...)
BertBuildVectorizer ==
    /\ pc = "L148"
    /\ vectorizer' = Some(BertVectorizer)
    /\ Does("CountVectorizer", "L153")
    /\ UNCHANGED <<strategy, args, vocabulary_, tf, feature_names, lda,
                   components_, umap_model, topic_model, bert_topics, result,
                   np_random, lib, remembered>>

\* umap_model = UMAP(...)
BertBuildUmap ==
    /\ pc = "L153"
    /\ umap_model' = Some(UmapModel(args.umap_n_neighbors))
    /\ Does("UMAP", "L161")
    /\ UNCHANGED <<strategy, args, vectorizer, vocabulary_, tf, feature_names,
                   lda, components_, topic_model, bert_topics, result,
                   np_random, lib, remembered>>

\* topic_model = BERTopic(...)
BertConstruct ==
    /\ pc = "L161"
    /\ topic_model' = Some(BertModel(args.top_n_words, args.min_topic_size,
                                     vectorizer[1], umap_model[1]))
    /\ Does("BERTopic", "L170")
    /\ UNCHANGED <<strategy, args, vectorizer, vocabulary_, tf, feature_names,
                   lda, components_, umap_model, bert_topics, result,
                   np_random, lib, remembered>>

\* topic_model.fit_transform(docs): UMAP draws from the process-wide
\* RandomState; the topics found are not determined by the arguments
BertFitTransform ==
    /\ pc = "L170"
    /\ LET m == topic_model[1]
           out == FitTransform(m.vectorizer_model, args.docs)
       IN \/ /\ out.ok
             /\ \E mapping \in GetTopicsChoices(out.vocabulary, m.top_n_words) :
                    bert_topics' = Some(mapping)
             /\ vocabulary_' = Some(out.vocabulary)
             /\ np_random' = IF UsesGlobalRng(m.umap_model.random_state)
                             THEN Advance(np_random) ELSE np_random
             /\ Does("fit_transform", "L177")
             /\ UNCHANGED result
          \/ /\ ~out.ok
             /\ Fails("fit_transform", out.error)
             /\ UNCHANGED <<bert_topics, vocabulary_, np_random>>
          \/ /\ \E e \in {"ValueError", "MemoryError"} :
                    Fails("fit_transform", e)
             /\ UNCHANGED <<bert_topics, vocabulary_, np_random>>
    /\ UNCHANGED <<strategy, args, vectorizer, tf, feature_names, lda,
                   components_, umap_model, topic_model, lib, remembered>>

\* topics = [...]; return topics
BertTopics ==
    /\ pc = "L177"
    /\ result' = Some(BertTopicsOf(bert_topics[1]))
    /\ Does("get_topics", "returned")
    /\ UNCHANGED <<strategy, args, vectorizer, vocabulary_, tf, feature_names,
                   lda, components_, umap_model, topic_model, bert_topics,
                   np_random, lib, remembered>>

-----------------------------------------------------------------------------

Init ==
    /\ pc = "idle"
    /\ strategy = "none"
    /\ args = << >>
    /\ vectorizer = None /\ vocabulary_ = None /\ tf = None
    /\ feature_names = None
    /\ lda = None /\ components_ = None
    /\ umap_model = None /\ topic_model = None /\ bert_topics = None
    /\ result = None
    /\ error = ""
    /\ trace = << >>
    /\ raised = None
    /\ np_random = 0
    /\ lib \in LibChoices
    /\ remembered = {}

Next ==
    \/ LdaCall
    \/ LdaImport
    \/ LdaBuildVectorizer
    \/ LdaFitTransform
    \/ LdaFeatureNames
    \/ LdaConstruct
    \/ LdaFit
    \/ LdaTopics
    \/ BertCall
    \/ BertImport
    \/ BertBuildVectorizer
    \/ BertBuildUmap
    \/ BertConstruct
    \/ BertFitTransform
    \/ BertTopics

Spec == Init /\ [][Next]_vars

-----------------------------------------------------------------------------
(* Properties *)

LdaReturned == pc = "returned" /\ strategy = "lda"
BertReturned == pc = "returned" /\ strategy = "bertopic"

\* position of a word in feature_names
IndexOf(w) == CHOOSE j \in 1..Len(feature_names[1]) : feature_names[1][j] = w

\* weight of the k-th word of result topic t in row t of components_
WeightAt(t, k) == components_[1][t][IndexOf(result[1][t][k])]

\* C1: a returned LDA result is a list of topics, each a list of vocabulary
\* words, and within topic t the words are in non-increasing order of their
\* weight in row t of components_.
C1_WordsByNonIncreasingWeight ==
    LdaReturned =>
        \A t \in 1..Len(result[1]) :
            /\ \A k \in 1..Len(result[1][t]) :
                   \E j \in 1..Len(feature_names[1]) :
                       feature_names[1][j] = result[1][t][k]
            /\ \A k \in 1..(Len(result[1][t]) - 1) :
                   WeightAt(t, k) >= WeightAt(t, k + 1)

\* an LDA call returned a topic of at least three words, some of equal and some
\* of strictly decreasing weight
C1_Witness ==
    /\ LdaReturned
    /\ \E t \in 1..Len(result[1]) :
        /\ Len(result[1][t]) >= 3
        /\ \E k \in 1..(Len(result[1][t]) - 1) :
               WeightAt(t, k) > WeightAt(t, k + 1)
        /\ \E k \in 1..(Len(result[1][t]) - 1) :
               WeightAt(t, k) = WeightAt(t, k + 1)

\* C2: a returned LDA result has number_of_topics topics, one per row of
\* components_, whatever the number of documents and the vocabulary size.
C2_OneTopicPerRequestedTopic ==
    LdaReturned =>
        /\ Len(result[1]) = args.number_of_topics
        /\ Len(result[1]) = Len(components_[1])

\* an LDA call returned two topics from one document with six terms
C2_Witness ==
    /\ LdaReturned
    /\ args.number_of_topics = 2
    /\ Len(args.docs) = 1
    /\ Len(feature_names[1]) = 6
    /\ Len(result[1]) = 2

\* C3: a returned BERTopic result has one word list per entry of get_topics(),
\* in the mapping's order, the outlier topic included; each list holds the
\* words of that entry's (word, score) tuples, same order, same length.
C3_OneWordListPerMappingEntry ==
    BertReturned =>
        /\ Len(result[1]) = Len(bert_topics[1])
        /\ \A e \in 1..Len(bert_topics[1]) :
            /\ Len(result[1][e]) = Len(bert_topics[1][e].words)
            /\ \A k \in 1..Len(bert_topics[1][e].words) :
                   result[1][e][k] = bert_topics[1][e].words[k][1]

\* a BERTopic call returned the outlier topic after another topic, two words
\* each
C3_Witness ==
    /\ BertReturned
    /\ Len(bert_topics[1]) = 2
    /\ bert_topics[1][2].key = -1
    /\ Len(result[1][2]) = 2
    /\ result[1][1] # result[1][2]

\* C4: an LDA call returns what an earlier LDA call with equal arguments
\* returned, whichever calls ran before or between them.
C4_LdaResultDependsOnArgumentsOnly ==
    \A r \in remembered :
        (LdaReturned /\ args = r.args) => result = Some(r.result)

\* an LDA call returned with the arguments of a remembered earlier call, a
\* BERTopic fit having drawn from the process-wide RandomState in between
C4_Witness ==
    \E r \in remembered :
        /\ LdaReturned
        /\ args = r.args
        /\ np_random # r.np
        /\ Len(r.result) = 2
        /\ r.result[1] # r.result[2]

\* C5: extract_topics_with_bertopic called with some documents as docs and
\* nothing else, as in its docstring, is not rejected for its arguments.
C5_DocsOnlyCallIsAccepted ==
    (strategy = "bertopic" /\ DOMAIN args = {"docs"} /\ args.docs # << >>)
        => error # "TypeError"

\* C6: TopicExtractionStrategy has exactly the members lda and bertopic, with
\* the distinct values "lda" and "bertopic", and every call runs under one of
\* these values.
C6_TwoStrategies ==
    /\ EnumMembers(TopicExtractionStrategy) = {"lda", "bertopic"}
    /\ Len(TopicExtractionStrategy) = 2
    /\ EnumValue(TopicExtractionStrategy, "lda") = "lda"
    /\ EnumValue(TopicExtractionStrategy, "bertopic") = "bertopic"
    /\ strategy \in {"none", "lda", "bertopic"}
    /\ pc \in {"L57", "L63", "L71", "L75", "L82", "L99", "L113"}
         => strategy = "lda"
    /\ pc \in {"L145", "L148", "L153", "L161", "L170", "L177"}
         => strategy = "bertopic"

\* both strategies have been used: a BERTopic call runs after a remembered LDA
\* call
C6_Witness ==
    /\ strategy = "bertopic"
    /\ pc = "L177"
    /\ remembered # {}

Occurrences(step) == Cardinality({ i \in 1..Len(trace) : trace[i] = step })

\* every occurrence of b in the trace has an a before it
Precedes(a, b) ==
    \A j \in 1..Len(trace) :
        trace[j] = b => \E i \in 1..(j - 1) : trace[i] = a

LdaSteps == <<"import", "CountVectorizer", "fit_transform",
              "get_feature_names_out", "LatentDirichletAllocation", "fit",
              "components_">>

BertSteps == <<"import", "CountVectorizer", "UMAP", "BERTopic",
               "fit_transform", "get_topics">>

\* C7: the steps of a call run in source order, none skipped or repeated: the
\* vectorizer before the model, the model before fit, fit once, and the
\* model's outputs are read only after fit has completed.
C7_StepsInSourceOrder ==
    /\ \A i \in 1..Len(trace) : Occurrences(trace[i]) = 1
    /\ strategy = "lda" =>
        /\ Precedes("CountVectorizer", "fit_transform")
        /\ Precedes("fit_transform", "LatentDirichletAllocation")
        /\ Precedes("LatentDirichletAllocation", "fit")
        /\ Precedes("fit", "components_")
        /\ pc = "L113" => (trace[Len(trace)] = "fit" /\ components_ # None)
        /\ pc = "returned" => trace = LdaSteps
    /\ strategy = "bertopic" =>
        /\ Precedes("CountVectorizer", "BERTopic")
        /\ Precedes("UMAP", "BERTopic")
        /\ Precedes("BERTopic", "fit_transform")
        /\ Precedes("fit_transform", "get_topics")
        /\ pc = "L177" =>
              (trace[Len(trace)] = "fit_transform" /\ bert_topics # None)
        /\ pc = "returned" => trace = BertSteps

\* an LDA call has read components_ after its one fit
C7_Witness ==
    /\ LdaReturned
    /\ Occurrences("fit") = 1
    /\ trace[Len(trace)] = "components_"

\* C8: what a library step raises reaches the caller as that error, with no
\* result, and the failed step is the last step of the call and ran once; a
\* call that returned met no error.
C8_ErrorsPropagate ==
    /\ raised # None =>
        /\ pc = "raised"
        /\ error = raised[1].error
        /\ result = None
        /\ trace[Len(trace)] = raised[1].step
        /\ Occurrences(raised[1].step) = 1
    /\ pc = "raised" => result = None /\ error # ""
    /\ pc = "returned" => raised = None /\ error = "" /\ result # None

\* lda.fit rejected number_of_topics = 0 and the call ended with that error
C8_Witness ==
    /\ strategy = "lda"
    /\ raised = Some([step |-> "fit", error |-> "InvalidParameterError"])
    /\ args.number_of_topics = 0
    /\ pc = "raised"

\* C9: the caller's parameters reach the libraries unchanged and every other
\* parameter set by the code is a constant.
C9_ParametersPassedThrough ==
    /\ (strategy = "lda" /\ vectorizer # None) =>
        vectorizer[1] = [min_df |-> args.min_document_frequency,
                         max_df |-> <<"float", 100>>,
                         ngram_range |-> <<1, 3>>,
                         max_features |-> << >>,
                         stop_words |-> "english"]
    /\ lda # None =>
        /\ lda[1].n_components = args.number_of_topics
        /\ [lda[1] EXCEPT !.n_components = 0] =
              [n_components |-> 0,
               doc_topic_prior |-> << >>,
               topic_word_prior |-> << >>,
               learning_method |-> "batch",
               learning_decay |-> "0.7",
               learning_offset |-> "10.0",
               max_iter |-> 5000,
               batch_size |-> 128,
               evaluate_every |-> -1,
               total_samples |-> "1000000.0",
               perp_tol |-> "0.1",
               mean_change_tol |-> "0.001",
               max_doc_update_iter |-> 100,
               random_state |-> <<0>>]
    /\ (strategy = "bertopic" /\ vectorizer # None) =>
        /\ vectorizer[1].stop_words = "english"
        /\ vectorizer[1].ngram_range = <<1, 3>>
    /\ umap_model # None =>
        /\ umap_model[1].n_neighbors = args.umap_n_neighbors
        /\ umap_model[1].n_components = 5
        /\ umap_model[1].min_dist = "0.0"
        /\ umap_model[1].metric = "cosine"
        /\ umap_model[1].low_memory = FALSE
    /\ topic_model # None =>
        /\ topic_model[1].top_n_words = args.top_n_words
        /\ topic_model[1].min_topic_size = args.min_topic_size
        /\ topic_model[1].language = "english"
        /\ topic_model[1].verbose = TRUE
        /\ topic_model[1].vectorizer_model = vectorizer[1]
        /\ topic_model[1].umap_model = umap_model[1]

\* a BERTopic model was built from arguments that differ from the libraries'
\* defaults and from one another
C9_Witness ==
    /\ topic_model # None
    /\ args.umap_n_neighbors = 2
    /\ args.top_n_words = 1
    /\ args.min_topic_size = 10

\* C10: every topic of a returned LDA result is a permutation of the whole
\* vocabulary: as long as feature_names, every term exactly once, nothing
\* else.
C10_TopicsArePermutationsOfVocabulary ==
    LdaReturned =>
        \A t \in 1..Len(result[1]) :
            /\ Len(result[1][t]) = Len(feature_names[1])
            /\ { result[1][t][k] : k \in 1..Len(result[1][t]) } =
               { feature_names[1][j] : j \in 1..Len(feature_names[1]) }
            /\ \A k, m \in 1..Len(result[1][t]) :
                   result[1][t][k] = result[1][t][m] => k = m

\* an LDA call returned two topics over six terms, in different orders
C10_Witness ==
    /\ LdaReturned
    /\ Len(feature_names[1]) = 6
    /\ Len(result[1]) = 2
    /\ result[1][1] # result[1][2]
    /\ Len(result[1][1]) = 6

====
